---- MODULE Spec2Model ----
(***************************************************************************)
(* State-machine model of the posts page: Home (src/pages/index.tsx)       *)
(* fetches the seed collection and renders PostsTable                      *)
(* (src/unnamed/part_001), which owns posts / loading / isModalOpen /      *)
(* editingPost and the shared form store used by PostForm                  *)
(* (src/unnamed/part_002).  Every handler runs to completion; an awaited   *)
(* axios call splits a handler into an "issue" step and a "resolved" step, *)
(* and the call in flight carries the values its closure captured.         *)
(***************************************************************************)
EXTENDS Integers, Sequences, FiniteSets, Bags, TLC

\* ---------------------------------------------------------------- bounds
\* number of create / update / delete requests one run may issue
MaxOps == 2

\* ------------------------------------------------------- program constants
NotFound == 404
BadRequest == 400
ServerError == 500
\* a status outside 400/404/500 (the default: arm of handleApiError)
OtherStatus == 403
\* userId sent with every create
DefaultUserId == 1

\* ------------------------------------------------------------ value model
\* null / undefined editingPost
NoPost == [id |-> 0, title |-> "", body |-> "", userId |-> 0]
\* undefined initialError
NoError == ""
\* value of a form field that was reset or never set
Unset == ""

MkPost(i, t, b, u) == [id |-> i, title |-> t, body |-> b, userId |-> u]

\* collections the remote GET can return (ids unique on the remote)
RemotePosts == { <<>>,
                 <<MkPost(1, "a", "a", 2)>>,
                 <<MkPost(2, "a", "a", 2), MkPost(1, "a", "a", 2)>> }

\* response.data of a GET: an array, a truthy non-array, or nothing
GetData == { [truthy |-> TRUE, isArray |-> TRUE, items |-> l] : l \in RemotePosts }
           \cup { [truthy |-> TRUE, isArray |-> FALSE, items |-> <<>>],
                  [truthy |-> FALSE, isArray |-> FALSE, items |-> <<>>] }
NoData == [truthy |-> FALSE, isArray |-> FALSE, items |-> <<>>]

\* ids the remote assigns to a created post: it never stores the record, so
\* every create is answered with the same next free id
CreatedIds == {3}

\* what the user can leave in the form: the title empty, the body empty, or
\* both fields filled
Drafts == { [title |-> "", body |-> "b"],
            [title |-> "b", body |-> ""],
            [title |-> "b", body |-> "b"] }

\* thrown values: an AxiosError with a response (status), an AxiosError with
\* only a request, an AxiosError with neither, and a non-axios exception
NoErr == [axios |-> FALSE, status |-> 0, request |-> FALSE, thrown |-> FALSE]
AxiosStatus(s) == [axios |-> TRUE, status |-> s, request |-> TRUE, thrown |-> TRUE]
Errors == { AxiosStatus(s) : s \in {NotFound, BadRequest, ServerError, OtherStatus} }
          \cup { [axios |-> TRUE, status |-> 0, request |-> TRUE, thrown |-> TRUE],
                 [axios |-> TRUE, status |-> 0, request |-> FALSE, thrown |-> TRUE],
                 [axios |-> FALSE, status |-> 0, request |-> FALSE, thrown |-> TRUE] }

\* outcome of an awaited call
Ok(post, data) == [ok |-> TRUE, post |-> post, data |-> data, err |-> NoErr]
Failed(e) == [ok |-> FALSE, post |-> NoPost, data |-> NoData, err |-> e]
NoRes == [ok |-> FALSE, post |-> NoPost, data |-> NoData, err |-> NoErr]

\* a call in flight, with what the issuing closure captured
NoValues == [title |-> Unset, body |-> Unset]
\* the body sent with a PUT or POST: {...values, id, userId}
Body(values, id, userId) == [title |-> values.title, body |-> values.body, id |-> id, userId |-> userId]
NoBody == Body(NoValues, 0, 0)
Req(k, target, values, id) ==
    [kind |-> k, target |-> target, values |-> values, id |-> id, body |-> NoBody]
NoReq == Req("none", NoPost, NoValues, 0)

VARIABLES
    stage,        \* "home": Home is fetching; "constructed": PostsTable rendered; "mounted": its effects ran
    initialPosts, \* prop of PostsTable
    initialError, \* prop of PostsTable
    posts,        \* useState posts
    loading,      \* useState loading
    isModalOpen,  \* useState isModalOpen
    editingPost,  \* useState editingPost
    formValues,   \* the store of Form.useForm()
    inflight,     \* bag of the axios calls awaiting their response
    ev,           \* the handler step taken last
    issued,       \* create / update / delete requests issued so far
    notes         \* notifications shown by the handler step taken last

vars == <<stage, initialPosts, initialError, posts, loading, isModalOpen,
          editingPost, formValues, inflight, ev, issued, notes>>

Ev(k, req, res) == [kind |-> k, req |-> req, res |-> res]

\* ---------------------------------------------------------------- helpers
\* the calls in flight once r has resolved / once r was issued
Resolved(r) == inflight (-) SetToBag({r})
Issued(r) == inflight (+) SetToBag({r})
Outstanding == BagCardinality(inflight)

showNotification(type, message, description) ==
    [type |-> type, message |-> message, description |-> description]

\* variant: the else-if on axiosError.request is missing
apiErrorMessageNoRequestArm(e) ==
    IF e.axios /\ e.status # 0
    THEN CASE e.status = NotFound -> "The requested resource was not found"
           [] e.status = BadRequest -> "Invalid request data"
           [] e.status = ServerError -> "Server error occurred"
           [] OTHER -> "Error: " \o ToString(e.status)
    ELSE "An unexpected error occurred"

\* handleApiError: the message chosen for a thrown value
apiErrorMessage(e) ==
    IF e.axios /\ e.status # 0
    THEN CASE e.status = NotFound -> "The requested resource was not found"
           [] e.status = BadRequest -> "Invalid request data"
           [] e.status = ServerError -> "Server error occurred"
           [] OTHER -> "Error: " \o ToString(e.status)
    ELSE IF e.axios /\ e.request
         THEN "No response received from server"
         ELSE "An unexpected error occurred"

handleApiError(e, context) ==
    showNotification("error", "Error " \o context, apiErrorMessage(e))

\* rules={[{ required: true }]}: only undefined / null / "" are rejected
required(v) == v # ""

\* variant: only the title rule is enforced
formValidTitleOnly(values) == required(values.title)

\* the form's validation before onFinish is called
formValid(values) == required(values.title) /\ required(values.body)

\* {...editingPost, ...values}
updatedPost(target, values) ==
    [target EXCEPT !.title = values.title, !.body = values.body]

\* variant: the updated record is moved to the head of the list
mapUpdatedMovedToFront(prevPosts, target, values) ==
    <<updatedPost(target, values)>> \o SelectSeq(prevPosts, LAMBDA p : p.id # target.id)

\* variant: the mapped list is computed but the previous one is returned
mapUpdatedNotApplied(prevPosts, target, values) == prevPosts

\* prevPosts.map(post => post.id === editingPost.id ? updatedPost : post)
mapUpdated(prevPosts, target, values) ==
    [i \in 1..Len(prevPosts) |->
        IF prevPosts[i].id = target.id THEN updatedPost(target, values)
        ELSE prevPosts[i]]

\* variant: the predicate is inverted, only the matching records are kept
filterDeletedInverted(prevPosts, postId) ==
    SelectSeq(prevPosts, LAMBDA p : p.id = postId)

\* prevPosts.filter(post => post.id !== postId)
filterDeleted(prevPosts, postId) ==
    SelectSeq(prevPosts, LAMBDA p : p.id # postId)

\* variant: the created record is appended
appendCreated(prevPosts, created) == prevPosts \o <<created>>

\* [response.data, ...prevPosts]
prependCreated(prevPosts, created) == <<created>> \o prevPosts

\* variant: the loaded records are sorted by id
fetchedPostsSorted(prevPosts, data) == SortSeq(data.items, LAMBDA x, y : x.id < y.id)

\* setPosts(response.data)
fetchedPosts(prevPosts, data) == data.items

\* the catch of the inner try of the update branch
updateSimulated(e) == e.axios /\ e.status = ServerError

\* variant: any failure that carries a response is swallowed
deleteSimulatedAnyStatus(e) == e.axios /\ e.status # 0

\* the catch of the inner try of handleDelete
deleteSimulated(e) == e.axios /\ (e.status = NotFound \/ e.status = ServerError)

\* variant: the PUT body carries the default author
putRequestDefaultUser(target, values) ==
    [Req("put", target, values, target.id)
        EXCEPT !.body = Body(values, target.id, DefaultUserId)]

\* axios.put(`.../posts/${editingPost.id}`, {...values, id: editingPost.id, userId: editingPost.userId})
putRequest(target, values) ==
    [Req("put", target, values, target.id)
        EXCEPT !.body = Body(values, target.id, target.userId)]

\* axios.post(".../posts", {...values, userId: 1})
postRequest(values) ==
    [Req("post", NoPost, values, 0) EXCEPT !.body = Body(values, 0, DefaultUserId)]

\* if (editingPost) { ...put... } else { ...post... }
submitRequest(target, values) ==
    IF target # NoPost THEN putRequest(target, values) ELSE postRequest(values)

\* variant: setLoading(false) sits at the end of the try block, not in finally
settledLoadingOnSuccessOnly(prevLoading, res) == IF res.ok THEN FALSE ELSE prevLoading

\* finally { setLoading(false) }
settledLoading(prevLoading, res) == FALSE

\* variant: the mount effect refetches only after a seed error
shouldFetchOnErrorOnly(error, list) == error # NoError

\* if (initialError || posts.length === 0)
shouldFetch(error, list) == error # NoError \/ Len(list) = 0

\* variant: closing the form also drops the submissions still in flight
callsAbortedOnCancel(calls) ==
    LET kept == {q \in BagToSet(calls) : q.kind \notin {"put", "post"}}
    IN [q \in kept |-> calls[q]]

\* handleModalCancel leaves the calls in flight alone
callsAfterCancel(calls) == calls

\* variant: the fields keep what was typed
closedFormNotReset == formValues

\* handleModalCancel
closedForm == NoValues

\* -------------------------------------------------------------------- Init
Init ==
    /\ stage \in {"home", "constructed"}
    /\ initialPosts = <<>>
    /\ initialError = NoError
    /\ posts = <<>>
    /\ loading = FALSE
    /\ isModalOpen = FALSE
    /\ editingPost = NoPost
    /\ formValues = NoValues
    /\ inflight = EmptyBag
    /\ ev = Ev("init", NoReq, NoRes)
    /\ notes = <<>>
    /\ issued = 0


\* ------------------------------------------------------------------- Home
\* Home's own GET resolves; Home then renders PostsTable with the seed
HomeFetchResolved(res) ==
    /\ stage = "home"
    /\ LET failed == ~res.ok \/ ~res.data.truthy
           seed == IF failed \/ ~res.data.isArray THEN <<>> ELSE res.data.items
       IN /\ initialPosts' = seed
          /\ initialError' = IF failed THEN "Failed to fetch initial posts" ELSE NoError
          /\ posts' = seed
    /\ stage' = "constructed"
    /\ ev' = Ev("homeResolved", Req("get", NoPost, NoValues, 0), res)
    /\ notes' = <<>>
    /\ UNCHANGED <<loading, isModalOpen, editingPost, formValues, inflight, issued>>

\* ------------------------------------------------------------- PostsTable
\* the two mount effects: fetchPosts() up to its await, and the seed-error toast
MountEffects ==
    /\ stage = "constructed"
    /\ stage' = "mounted"
    /\ IF shouldFetch(initialError, posts)
       THEN /\ loading' = TRUE
            /\ inflight' = Issued(Req("get", NoPost, NoValues, 0))
       ELSE UNCHANGED <<loading, inflight>>
    /\ notes' = IF initialError # NoError
                THEN <<showNotification("error", "Error Loading Data", initialError)>>
                ELSE <<>>
    /\ ev' = Ev("mount", NoReq, NoRes)
    /\ UNCHANGED <<initialPosts, initialError, posts, isModalOpen, editingPost, formValues, issued>>

\* fetchPosts after its await
FetchResolved(r, res) ==
    /\ BagIn(r, inflight)
    /\ r.kind = "get"
    /\ inflight' = Resolved(r)
    /\ IF res.ok
       THEN IF res.data.truthy /\ res.data.isArray
            THEN /\ posts' = fetchedPosts(posts, res.data)
                 /\ notes' = IF initialError # NoError
                             THEN <<showNotification("success", "Data Loaded",
                                                     "Successfully retrieved posts")>>
                             ELSE <<>>
            ELSE /\ posts' = posts
                 /\ notes' = <<>>
       ELSE /\ posts' = posts
            /\ notes' = <<handleApiError(res.err, "fetching posts")>>
    /\ loading' = settledLoading(loading, res)
    /\ ev' = Ev("fetchResolved", r, res)
    /\ UNCHANGED <<stage, initialPosts, initialError, isModalOpen, editingPost, formValues, issued>>

\* the open Modal masks the page: the table and the Add button are not reachable
pageInteractive == stage = "mounted" /\ ~isModalOpen

\* "Add New Post": onClick={() => setIsModalOpen(true)}, disabled={loading}
OpenAdd ==
    /\ pageInteractive
    /\ ~loading
    /\ isModalOpen' = TRUE
    /\ ev' = Ev("openAdd", NoReq, NoRes)
    /\ notes' = <<>>
    /\ UNCHANGED <<stage, initialPosts, initialError, posts, loading, editingPost,
                   formValues, inflight, issued>>

\* handleEdit(record), button disabled={loading}
handleEdit(i) ==
    /\ pageInteractive
    /\ ~loading
    /\ i \in 1..Len(posts)
    /\ editingPost' = posts[i]
    /\ formValues' = [title |-> posts[i].title, body |-> posts[i].body]
    /\ isModalOpen' = TRUE
    /\ ev' = Ev("edit", NoReq, NoRes)
    /\ notes' = <<>>
    /\ UNCHANGED <<stage, initialPosts, initialError, posts, loading, inflight, issued>>

\* the user edits the two inputs of the open form
TypeFields(d) ==
    /\ isModalOpen
    /\ formValues # d
    /\ formValues' = d
    /\ ev' = Ev("type", NoReq, NoRes)
    /\ notes' = <<>>
    /\ UNCHANGED <<stage, initialPosts, initialError, posts, loading, isModalOpen,
                   editingPost, inflight, issued>>

\* submit with a rule violated: onFinishFailed
SubmitFailed ==
    /\ isModalOpen
    /\ ~formValid(formValues)
    /\ ev' = Ev("submitFailed", NoReq, NoRes)
    /\ notes' = <<showNotification("warning", "Validation Error",
                                   "Please check the form fields and try again")>>
    /\ UNCHANGED <<stage, initialPosts, initialError, posts, loading, isModalOpen,
                   editingPost, formValues, inflight, issued>>

\* handleSubmit(values) up to its await: the submit button is never disabled
handleSubmit ==
    /\ isModalOpen
    /\ formValid(formValues)
    /\ issued < MaxOps
    /\ issued' = issued + 1
    /\ loading' = TRUE
    /\ LET req == submitRequest(editingPost, formValues)
       IN /\ inflight' = Issued(req)
          /\ ev' = Ev("submit", req, NoRes)
    /\ notes' = <<>>
    /\ UNCHANGED <<stage, initialPosts, initialError, posts, isModalOpen, editingPost,
                   formValues>>

\* handleSubmit after the await of axios.put
PutResolved(r, res) ==
    /\ BagIn(r, inflight)
    /\ r.kind = "put"
    /\ inflight' = Resolved(r)
    /\ IF res.ok \/ updateSimulated(res.err)
       THEN /\ posts' = mapUpdated(posts, r.target, r.values)
            /\ notes' = <<showNotification("success", "Post Updated",
                            IF res.ok
                            THEN "Your post has been successfully updated (simulated)"
                            ELSE "Update simulated successfully (JSONPlaceholder API)")>>
            /\ formValues' = closedForm
            /\ isModalOpen' = FALSE
            /\ editingPost' = NoPost
       ELSE /\ notes' = <<handleApiError(res.err, "updating post")>>
            /\ UNCHANGED <<posts, formValues, isModalOpen, editingPost>>
    /\ loading' = settledLoading(loading, res)
    /\ ev' = Ev("putResolved", r, res)
    /\ UNCHANGED <<stage, initialPosts, initialError, issued>>

\* handleSubmit after the await of axios.post
PostResolved(r, res) ==
    /\ BagIn(r, inflight)
    /\ r.kind = "post"
    /\ inflight' = Resolved(r)
    /\ IF res.ok
       THEN /\ posts' = prependCreated(posts, res.post)
            /\ notes' = <<showNotification("success", "Post Created",
                            "Your new post has been successfully created")>>
            /\ formValues' = closedForm
            /\ isModalOpen' = FALSE
            /\ editingPost' = NoPost
       ELSE /\ notes' = <<handleApiError(res.err, "creating post")>>
            /\ UNCHANGED <<posts, formValues, isModalOpen, editingPost>>
    /\ loading' = settledLoading(loading, res)
    /\ ev' = Ev("postResolved", r, res)
    /\ UNCHANGED <<stage, initialPosts, initialError, issued>>

\* handleModalCancel: the Modal's close icon and the form's Cancel button
handleModalCancel ==
    /\ isModalOpen
    /\ formValues' = closedForm
    /\ isModalOpen' = FALSE
    /\ editingPost' = NoPost
    /\ inflight' = callsAfterCancel(inflight)
    /\ ev' = Ev("cancel", NoReq, NoRes)
    /\ notes' = <<>>
    /\ UNCHANGED <<stage, initialPosts, initialError, posts, loading, issued>>

\* handleDelete(record.id) up to its await; the Delete button is disabled={loading}
handleDelete(i) ==
    /\ pageInteractive
    /\ ~loading
    /\ i \in 1..Len(posts)
    /\ issued < MaxOps
    /\ issued' = issued + 1
    /\ loading' = TRUE
    /\ LET req == Req("delete", NoPost, NoValues, posts[i].id)
       IN /\ inflight' = Issued(req)
          /\ ev' = Ev("delete", req, NoRes)
    /\ notes' = <<>>
    /\ UNCHANGED <<stage, initialPosts, initialError, posts, isModalOpen, editingPost,
                   formValues>>

\* handleDelete after the await of axios.delete
DeleteResolved(r, res) ==
    /\ BagIn(r, inflight)
    /\ r.kind = "delete"
    /\ inflight' = Resolved(r)
    /\ IF res.ok \/ deleteSimulated(res.err)
       THEN /\ posts' = filterDeleted(posts, r.id)
            /\ notes' = <<showNotification("success", "Post Deleted",
                            "The post has been successfully deleted (simulated)")>>
       ELSE /\ posts' = posts
            /\ notes' = <<handleApiError(res.err, "deleting post")>>
    /\ loading' = settledLoading(loading, res)
    /\ ev' = Ev("deleteResolved", r, res)
    /\ UNCHANGED <<stage, initialPosts, initialError, isModalOpen, editingPost, formValues, issued>>

\* ------------------------------------------------------ remote's responses
GetResponses == { Ok(NoPost, d) : d \in GetData } \cup { Failed(e) : e \in Errors }

\* the created record echoes the request body and carries the id the remote chose
PostResponses(r) ==
    { Ok(MkPost(id, r.body.title, r.body.body, r.body.userId), NoData) : id \in CreatedIds }
    \cup { Failed(e) : e \in Errors }

\* the body of a PUT or DELETE response is not read
PlainResponses == { Ok(NoPost, NoData) } \cup { Failed(e) : e \in Errors }

Next ==
    \/ \E res \in GetResponses : HomeFetchResolved(res)
    \/ MountEffects
    \/ \E r \in BagToSet(inflight) : \E res \in GetResponses : FetchResolved(r, res)
    \/ OpenAdd
    \/ \E i \in 1..Len(posts) : handleEdit(i)
    \/ \E d \in Drafts : TypeFields(d)
    \/ SubmitFailed
    \/ handleSubmit
    \/ \E r \in BagToSet(inflight) : \E res \in PlainResponses : PutResolved(r, res)
    \/ \E r \in BagToSet(inflight) : \E res \in PostResponses(r) : PostResolved(r, res)
    \/ handleModalCancel
    \/ \E i \in 1..Len(posts) : handleDelete(i)
    \/ \E r \in BagToSet(inflight) : \E res \in PlainResponses : DeleteResolved(r, res)

Spec == Init /\ [][Next]_vars

\* drafts with a field of whitespace only
WhitespaceDrafts == { [title |-> " ", body |-> "b"],
                      [title |-> "b", body |-> " "] }

\* the page used by somebody who leaves a field blank with spaces
NextWhitespace ==
    \/ \E res \in GetResponses : HomeFetchResolved(res)
    \/ MountEffects
    \/ \E r \in BagToSet(inflight) : \E res \in GetResponses : FetchResolved(r, res)
    \/ OpenAdd
    \/ \E i \in 1..Len(posts) : handleEdit(i)
    \/ \E d \in WhitespaceDrafts : TypeFields(d)
    \/ SubmitFailed
    \/ handleSubmit
    \/ \E r \in BagToSet(inflight) : \E res \in PlainResponses : PutResolved(r, res)
    \/ \E r \in BagToSet(inflight) : \E res \in PostResponses(r) : PostResolved(r, res)
    \/ handleModalCancel
    \/ \E i \in 1..Len(posts) : handleDelete(i)
    \/ \E r \in BagToSet(inflight) : \E res \in PlainResponses : DeleteResolved(r, res)

SpecWhitespace == Init /\ [][NextWhitespace]_vars

\* some call in flight gets its response
ResolveStep ==
    \E r \in BagToSet(inflight) :
        \/ \E res \in GetResponses : FetchResolved(r, res)
        \/ \E res \in PlainResponses : PutResolved(r, res)
        \/ \E res \in PostResponses(r) : PostResolved(r, res)
        \/ \E res \in PlainResponses : DeleteResolved(r, res)

\* every call issued is eventually answered, with a response or a failure
FairSpec == Spec /\ WF_vars(ResolveStep)

TypeOK ==
    /\ stage \in {"home", "constructed", "mounted"}
    /\ loading \in BOOLEAN
    /\ isModalOpen \in BOOLEAN
    /\ IsABag(inflight)
    /\ issued \in 0..MaxOps
    /\ Outstanding <= MaxOps
    /\ \A r \in BagToSet(inflight) : r.kind \in {"get", "post", "put", "delete"}
    /\ \A k \in 1..Len(posts) : posts[k].id > 0
    /\ Len(notes) <= 1


\* ================================================================= claims
IdsOf(list) == {list[i].id : i \in 1..Len(list)}
HasStatus(e, s) == e.axios /\ e.status = s
IsSuccessNote(n) == Len(n) = 1 /\ n[1].type = "success"
IsErrorNote(n) == Len(n) = 1 /\ n[1].type = "error"

\* C1: posts never holds two entries with the same id.
C1_UniqueIds ==
    \A i, j \in 1..Len(posts) : i # j => posts[i].id # posts[j].id

\* C2: an update whose PUT fails with HTTP 404 is treated as simulated
\* success: every record with the target's id carries the draft's title and
\* body, a success notification is shown and the Edit Session is closed.
C2_Update404Simulated ==
    (ev.kind = "putResolved" /\ HasStatus(ev.res.err, NotFound)) =>
        /\ \A i \in 1..Len(posts) :
              posts[i].id = ev.req.target.id =>
                 /\ posts[i].title = ev.req.values.title
                 /\ posts[i].body = ev.req.values.body
        /\ IsSuccessNote(notes)
        /\ ~isModalOpen
        /\ editingPost = NoPost

RealError(kind, e) ==
    /\ e.thrown
    /\ \/ ~e.axios
       \/ e.status = 0
       \/ e.status = BadRequest
       \/ e.status \notin {BadRequest, NotFound, ServerError}
       \/ kind \in {"fetchResolved", "postResolved"} /\ e.status \in {NotFound, ServerError}

ResolvedKinds == {"fetchResolved", "postResolved", "putResolved", "deleteResolved"}

\* C4: a load, create, update or delete that fails with a real error leaves
\* posts as it was and shows an error notification.
C4_RealErrorKeepsPosts ==
    [][ (ev'.kind \in ResolvedKinds /\ ~ev'.res.ok /\ RealError(ev'.kind, ev'.res.err)) =>
          /\ posts' = posts
          /\ IsErrorNote(notes') ]_vars

\* C4 witness: a delete answered with 400 has left its record in posts and
\* shown "Invalid request data".
C4_Witness ==
    /\ ev.kind = "deleteResolved"
    /\ HasStatus(ev.res.err, BadRequest)
    /\ ev.req.id \in IdsOf(posts)
    /\ IsErrorNote(notes)
    /\ notes[1].description = "Invalid request data"

C6_CreatePrepends ==
    [][ (ev'.kind = "postResolved" /\ ev'.res.ok) =>
          /\ Len(posts') = Len(posts) + 1
          /\ posts'[1] = ev'.res.post
          /\ \A i \in 1..Len(posts) : posts'[i + 1] = posts[i]
          /\ IsSuccessNote(notes')
          /\ ~isModalOpen'
          /\ editingPost' = NoPost ]_vars

\* C6 witness: a create has put the returned record in front of a loaded post.
C6_Witness ==
    /\ ev.kind = "postResolved"
    /\ ev.res.ok
    /\ Len(posts) = 2
    /\ posts[1] = ev.res.post
    /\ posts[2].id # ev.res.post.id
    /\ ~isModalOpen
    /\ editingPost = NoPost

\* C7: when the load's GET returns a collection, posts is afterwards exactly
\* that collection in the returned order, loading is false and the load
\* shows no error notification.
C7_LoadReplacesPosts ==
    [][ (ev'.kind = "fetchResolved" /\ ev'.res.ok /\ ev'.res.data.truthy /\ ev'.res.data.isArray) =>
          /\ posts' = ev'.res.data.items
          /\ ~loading'
          /\ \A k \in 1..Len(notes') : notes'[k].type # "error" ]_vars

\* C7 witness: a load has stored the two returned posts in the returned order.
C7_Witness ==
    /\ ev.kind = "fetchResolved"
    /\ ev.res.ok
    /\ Len(ev.res.data.items) = 2
    /\ posts = ev.res.data.items
    /\ posts[1].id > posts[2].id
    /\ ~loading

\* C8: submitting the form with an empty title or body issues no request and
\* leaves posts alone; a 'Validation Error' warning is shown and the Edit
\* Session stays open with its target unchanged.
C8_EmptyFieldRejected ==
    [][ (ev'.kind \in {"submit", "submitFailed"} /\
           (formValues.title = "" \/ formValues.body = "")) =>
          /\ inflight' = inflight
          /\ posts' = posts
          /\ Len(notes') = 1
          /\ notes'[1].type = "warning"
          /\ notes'[1].message = "Validation Error"
          /\ isModalOpen'
          /\ editingPost' = editingPost
          /\ formValues' = formValues ]_vars

\* C8 witness: an edit form with its body emptied was submitted and rejected.
C8_Witness ==
    /\ ev.kind = "submitFailed"
    /\ formValues.title # ""
    /\ formValues.body = ""
    /\ isModalOpen
    /\ editingPost # NoPost
    /\ notes = <<showNotification("warning", "Validation Error",
                                  "Please check the form fields and try again")>>

\* C9: loading is true whenever a network call of PostsTable is outstanding.
C9_BusyWhileOutstanding ==
    Outstanding > 0 => loading

\* C10: a create, update or delete request is never issued while loading is
\* true, so no two calls are outstanding together.
C10_NoIssueWhileBusy ==
    [][ (ev'.kind \in {"submit", "delete"} /\ inflight' # inflight) =>
          (~loading /\ Outstanding = 0) ]_vars


\* C11: when every call is eventually answered, the calls outstanding all
\* complete and loading ends up false; loading is false in every state with
\* no call outstanding, whatever the outcomes were.
C11_BusyClearsWhenIdle ==
    /\ [](Outstanding = 0 => ~loading)
    /\ (Outstanding > 0) ~> (Outstanding = 0 /\ ~loading)

\* C11 witness: the only call outstanding has failed and loading is false.
C11_Witness ==
    /\ ev.kind \in ResolvedKinds
    /\ ~ev.res.ok
    /\ ev.res.err.thrown
    /\ IsErrorNote(notes)
    /\ Outstanding = 0
    /\ ~loading


SubmitResolvedKinds == {"putResolved", "postResolved"}

\* C12: the Edit Session is closed only by cancel or by a submission that
\* completed with success or simulated success; a submission ending in a real
\* error leaves it open with its target; and the resolution of a submission
\* made in an earlier session does not touch a session opened later (right
\* after Add or Edit every submission in flight is from an earlier session).
C12_SessionClosedByOwnSubmission ==
    [][ /\ (isModalOpen /\ ~isModalOpen') =>
              \/ ev'.kind = "cancel"
              \/ /\ ev'.kind \in SubmitResolvedKinds
                 /\ ev'.res.ok \/ HasStatus(ev'.res.err, ServerError)
                               \/ HasStatus(ev'.res.err, NotFound)
        /\ (ev'.kind \in SubmitResolvedKinds /\ RealError(ev'.kind, ev'.res.err)) =>
              /\ isModalOpen' = isModalOpen
              /\ editingPost' = editingPost
        /\ (ev.kind \in {"openAdd", "edit"} /\ ev'.kind \in SubmitResolvedKinds) =>
              /\ isModalOpen'
              /\ editingPost' = editingPost ]_vars

C14_SubmitChoosesByTarget ==
    [][ (ev'.kind = "submit") =>
          /\ inflight' = inflight (+) SetToBag({ev'.req})
          /\ ev'.req.body.title = formValues.title
          /\ ev'.req.body.body = formValues.body
          /\ IF editingPost # NoPost
             THEN /\ ev'.req.kind = "put"
                  /\ ev'.req.id = editingPost.id
                  /\ ev'.req.body.id = editingPost.id
                  /\ ev'.req.body.userId = editingPost.userId
             ELSE /\ ev'.req.kind = "post"
                  /\ ev'.req.body.userId = 1 ]_vars

\* C14 witness: an edit session on a loaded post has issued a PUT with the
\* post's id and author and the draft typed over the seeded fields.
C14_Witness ==
    /\ ev.kind = "submit"
    /\ ev.req.kind = "put"
    /\ editingPost # NoPost
    /\ ev.req.body.id = editingPost.id
    /\ ev.req.body.userId = editingPost.userId
    /\ ev.req.body.userId # 1
    /\ ev.req.body.title # editingPost.title

\* C15: after Add the session is open with no target and empty fields; after
\* Edit on a post it is open with that post as target and the fields equal to
\* the post's title and body.
C15_OpenedSessionState ==
    [][ /\ (ev'.kind = "openAdd") =>
              /\ isModalOpen'
              /\ editingPost' = NoPost
              /\ formValues'.title = ""
              /\ formValues'.body = ""
        /\ (ev'.kind = "edit") =>
              /\ isModalOpen'
              /\ \E i \in 1..Len(posts) : editingPost' = posts[i]
              /\ formValues'.title = editingPost'.title
              /\ formValues'.body = editingPost'.body ]_vars

\* C15 witness: Add was pressed after an edit session whose update went
\* through, and the form came up empty and without target.
C15_Witness ==
    /\ ev.kind = "openAdd"
    /\ issued > 0
    /\ \E i \in 1..Len(posts) : posts[i].title = "b" /\ posts[i].userId # 1
    /\ isModalOpen
    /\ editingPost = NoPost
    /\ formValues = [title |-> "", body |-> ""]


\* C16: on mount a GET is issued exactly when the seed is empty or a seed
\* error was given; with a non-empty seed and no error no GET is issued and
\* posts is the seed; a load that succeeds shows 'Data Loaded' exactly when a
\* seed error was given.
C16_MountFetchesWhenNeeded ==
    [][ /\ (ev'.kind = "mount") =>
              /\ posts' = initialPosts
              /\ (inflight' # inflight) <=> (Len(initialPosts) = 0 \/ initialError # NoError)
              /\ (inflight' # inflight) =>
                    inflight' = inflight (+) SetToBag({Req("get", NoPost, NoValues, 0)})
        /\ (ev'.kind = "fetchResolved" /\ ev'.res.ok /\ ev'.res.data.truthy /\ ev'.res.data.isArray) =>
              ((\E k \in 1..Len(notes') : notes'[k].type = "success" /\ notes'[k].message = "Data Loaded")
                 <=> initialError # NoError) ]_vars

\* C16 witness: PostsTable mounted with a seed of two posts and no error, and
\* issued no GET.
C16_Witness ==
    /\ ev.kind = "mount"
    /\ Len(initialPosts) = 2
    /\ initialError = NoError
    /\ posts = initialPosts
    /\ Outstanding = 0
    /\ ~loading

\* the message the classification gives each error shape
MessageOfShape(e) ==
    CASE e.axios /\ e.status = 404 -> "The requested resource was not found"
      [] e.axios /\ e.status = 400 -> "Invalid request data"
      [] e.axios /\ e.status = 500 -> "Server error occurred"
      [] e.axios /\ e.status = 403 -> "Error: 403"
      [] e.axios /\ e.status = 0 /\ e.request -> "No response received from server"
      [] OTHER -> "An unexpected error occurred"

\* C17: the error notification of a failed load, create, update or delete
\* carries the message of the error's shape, whatever the operation.
C17_ErrorMessageByShape ==
    (ev.kind \in ResolvedKinds /\ IsErrorNote(notes)) =>
        /\ ev.res.err.thrown
        /\ notes[1].description = MessageOfShape(ev.res.err)

\* C17 witness: a create got no response and 'No response received from
\* server' was shown.
C17_Witness ==
    /\ ev.kind = "postResolved"
    /\ ev.res.err.axios
    /\ ev.res.err.status = 0
    /\ ev.res.err.request
    /\ IsErrorNote(notes)
    /\ notes[1].description = "No response received from server"

\* C18: submitting the form with a title or body of whitespace only is
\* rejected like an empty one: no request is issued, posts is unchanged and
\* the Edit Session stays open.
C18_WhitespaceRejected ==
    [][ (ev'.kind \in {"submit", "submitFailed"} /\
           (formValues.title = " " \/ formValues.body = " ")) =>
          /\ ev'.kind = "submitFailed"
          /\ inflight' = inflight
          /\ posts' = posts
          /\ isModalOpen'
          /\ editingPost' = editingPost ]_vars

MutationKinds == {"putResolved", "postResolved", "deleteResolved"}

\* C19: a create, update or delete that resolves shows exactly one
\* notification, a success or an error one: with the success one its change
\* is in posts and (create, update) the Edit Session is closed; with the
\* error one posts and the Edit Session are as before.
C19_OneNotificationPerResolution ==
    [][ (ev'.kind \in MutationKinds) =>
          /\ Len(notes') = 1
          /\ notes'[1].type \in {"success", "error"}
          /\ notes'[1].type = "success" =>
                /\ ev'.kind = "postResolved" =>
                      Len(posts') = Len(posts) + 1 /\ posts'[1] = ev'.res.post
                /\ ev'.kind = "deleteResolved" =>
                      /\ ev'.req.id \notin IdsOf(posts')
                      /\ Len(posts') = Cardinality({i \in 1..Len(posts) : posts[i].id # ev'.req.id})
                /\ ev'.kind = "putResolved" =>
                      /\ Len(posts') = Len(posts)
                      /\ \A i \in 1..Len(posts) : posts[i].id = ev'.req.id =>
                            /\ posts'[i].title = ev'.req.values.title
                            /\ posts'[i].body = ev'.req.values.body
                /\ ev'.kind # "deleteResolved" => (~isModalOpen' /\ editingPost' = NoPost)
          /\ notes'[1].type = "error" =>
                /\ ~ev'.res.ok
                /\ posts' = posts
                /\ isModalOpen' = isModalOpen
                /\ editingPost' = editingPost
                /\ formValues' = formValues ]_vars

\* C19 witness: an update went through: one success notification, the record
\* rewritten with the draft, the form closed.
C19_Witness ==
    /\ ev.kind = "putResolved"
    /\ ev.res.ok
    /\ notes = <<showNotification("success", "Post Updated",
                    "Your post has been successfully updated (simulated)")>>
    /\ \E i \in 1..Len(posts) :
          /\ posts[i].id = ev.req.id
          /\ posts[i].title = ev.req.values.title
          /\ posts[i].title # ev.req.target.title
    /\ ~isModalOpen
    /\ editingPost = NoPost

====
